---- MODULE Spec2Model ----
(***************************************************************************)
(* Model of src/handler.py: the SearXNG search tool handler.               *)
(*                                                                         *)
(* execute(topic, params, config) resolves its configuration, trims the    *)
(* query, clamps the limit and calls _search_searxng, which POSTs to the   *)
(* backend up to _MAX_RETRIES times with a blocking backoff sleep after    *)
(* each retryable outcome, deduplicates the results of the one successful  *)
(* response by URL and cuts them at the limit.  execute then truncates the *)
(* snippets and builds the response mapping.                               *)
(*                                                                         *)
(* Python strings are TLA+ strings; Python dicts whose key set varies      *)
(* (the response, with or without "error") are records whose domain        *)
(* varies; a JSON field that may be absent, null or a string is a tagged   *)
(* record [k, v].                                                          *)
(***************************************************************************)
EXTENDS Integers, Sequences, FiniteSets, TLC

VARIABLES
    pc,          \* per invocation: "idle", "post", "sleep", "done", "raised"
    params,      \* the params mapping the invocation was called with
    config,      \* the config mapping the invocation was called with
    environ,     \* the process environment seen by the invocation
    searxng_url, \* execute: resolved base URL
    timeout,     \* execute: resolved per-attempt timeout
    query,       \* execute: trimmed query
    limit,       \* execute: clamped limit
    attempt,     \* _search_searxng: loop variable of the retry loop
    last_err,    \* _search_searxng: last caught RequestException
    data,        \* _search_searxng: body of the outbound request
    delay,       \* _search_searxng: argument of the time.sleep in progress
    posts,       \* history: the outcome of every requests.post so far
    requests,    \* history: the request sent by every requests.post so far
    sleeps,      \* history: the delay of every time.sleep so far
    response,    \* the mapping execute returned (when pc = "done")
    fault        \* the exception that left execute (when pc = "raised")

vars == <<pc, params, config, environ, searxng_url, timeout, query, limit,
          attempt, last_err, data, delay, posts, requests, sleeps, response,
          fault>>

-----------------------------------------------------------------------------
(* Program constants *)

\* handler.py:16
_MAX_RETRIES == 3
\* handler.py:17
_BACKOFF_BASE == 2
\* handler.py:43  params.get("limit", 5)
DefaultLimit == 5
\* handler.py:44  max(1, min(20, limit))
LimitMin == 1
LimitMax == 20
\* handler.py:55  str(e)[:200]
ErrorMax == 200
\* handler.py:60  len(snippet) > 200
SnippetMax == 200
\* handler.py:61  snippet[:197] + "..."
SnippetKeep == 197
\* handler.py:39, 40
DefaultUrl == "http://localhost:8080"
DefaultTimeout == "10"
\* handler.py:102
RetryStatuses == {429, 502, 503, 504}
\* handler.py:137
RateMarkers == {"429", "rate", "too many"}

-----------------------------------------------------------------------------
(* Bounds of the model *)

\* longest backend result list drawn item by item
MaxItems == 2
\* length of the one long backend result list (more than LimitMax distinct URLs)
LongLen == 23
\* the two invocations of the model; the specification Spec runs the first alone
NumInvocations == 2

Invocations == 1..NumInvocations

-----------------------------------------------------------------------------
(* Python values *)

\* a mapping entry that is absent, None, or a string
Missing == [k |-> "missing", v |-> ""]
Null    == [k |-> "null", v |-> ""]
Str(s)  == [k |-> "str", v |-> s]
\* a mapping entry that is absent, None, or a list of strings
MissingList == [k |-> "missing", l |-> <<>>]
NullList    == [k |-> "null", l |-> <<>>]
List(l)     == [k |-> "list", l |-> l]
\* a mapping entry that is absent or an integer
MissingInt == [k |-> "missing", n |-> 0]
IntVal(n)  == [k |-> "int", n |-> n]

\* dict.get(key, default)
Get(entry, default) == IF entry.k = "missing" THEN default ELSE entry

\* truth value of an optional string: None and "" are false
Truthy(x) == x.k = "str" /\ x.v # ""

Max(a, b) == IF a >= b THEN a ELSE b
Min(a, b) == IF a <= b THEN a ELSE b

\* s[:n]
Prefix(s, n) == SubSeq(s, 1, Min(n, Len(s)))

RECURSIVE Rep(_, _)
Rep(c, n) == IF n <= 0 THEN ""
             ELSE IF n = 1 THEN c
             ELSE Rep(c, n \div 2) \o Rep(c, n - (n \div 2))

LowerChar(c) ==
    CASE c = "A" -> "a" [] c = "B" -> "b" [] c = "C" -> "c" [] c = "D" -> "d"
      [] c = "E" -> "e" [] c = "F" -> "f" [] c = "G" -> "g" [] c = "H" -> "h"
      [] c = "I" -> "i" [] c = "J" -> "j" [] c = "K" -> "k" [] c = "L" -> "l"
      [] c = "M" -> "m" [] c = "N" -> "n" [] c = "O" -> "o" [] c = "P" -> "p"
      [] c = "Q" -> "q" [] c = "R" -> "r" [] c = "S" -> "s" [] c = "T" -> "t"
      [] c = "U" -> "u" [] c = "V" -> "v" [] c = "W" -> "w" [] c = "X" -> "x"
      [] c = "Y" -> "y" [] c = "Z" -> "z" [] OTHER -> c

\* str.lower()
RECURSIVE Lower(_)
Lower(s) == IF Len(s) <= 1 THEN LowerChar(s)
            ELSE Lower(SubSeq(s, 1, Len(s) \div 2))
                 \o Lower(SubSeq(s, (Len(s) \div 2) + 1, Len(s)))

\* sub in s
Contains(s, sub) ==
    \E i \in 1..(Len(s) - Len(sub) + 1) : SubSeq(s, i, i + Len(sub) - 1) = sub

IsSpace(c) == c \in {" ", "\t", "\n", "\r"}

RECURSIVE LStrip(_)
LStrip(s) == IF s # "" /\ IsSpace(SubSeq(s, 1, 1))
             THEN LStrip(SubSeq(s, 2, Len(s))) ELSE s

RECURSIVE RStrip(_)
RStrip(s) == IF s # "" /\ IsSpace(SubSeq(s, Len(s), Len(s)))
             THEN RStrip(SubSeq(s, 1, Len(s) - 1)) ELSE s

\* str.strip()
Strip(s) == RStrip(LStrip(s))

\* ", ".join(l)
RECURSIVE Join(_)
Join(l) == IF l = <<>> THEN ""
           ELSE IF Len(l) = 1 THEN l[1]
           ELSE l[1] \o ", " \o Join(Tail(l))

\* an exception: its class, whether the class derives from
\* requests.exceptions.RequestException, and str(e)
Exc(type, reqexc, msg) == [type |-> type, reqexc |-> reqexc, msg |-> msg]
NoExc == Exc("None", FALSE, "")

-----------------------------------------------------------------------------
(* execute: configuration and parameters, handler.py:37-49 *)

\* a or b, for an optional string a and a string b
Or(a, b) == IF Truthy(a) THEN a.v ELSE b

\* os.getenv(name, default)
Getenv(entry, default) == IF entry.k = "str" THEN entry.v ELSE default

\* handler.py:39
ResolveUrl(cfg, env) ==
    Or(cfg.SEARXNG_URL, Getenv(env.SEARXNG_URL, DefaultUrl))

Digit(c) ==
    CASE c = "0" -> 0 [] c = "1" -> 1 [] c = "2" -> 2 [] c = "3" -> 3
      [] c = "4" -> 4 [] c = "5" -> 5 [] c = "6" -> 6 [] c = "7" -> 7
      [] c = "8" -> 8 [] c = "9" -> 9 [] OTHER -> -1

RECURSIVE Digits(_, _)
Digits(s, acc) ==
    IF s = "" THEN acc
    ELSE IF Digit(SubSeq(s, 1, 1)) < 0 THEN -1
    ELSE Digits(SubSeq(s, 2, Len(s)), 10 * acc + Digit(SubSeq(s, 1, 1)))

\* int(s) for a string s: the value, or a ValueError
ParseInt(s) ==
    LET t == Strip(s)
        n == IF t = "" THEN -1 ELSE Digits(t, 0)
    IN  IF n < 0
        THEN [exc |-> Exc("ValueError", FALSE,
                          "invalid literal for int() with base 10: '" \o s \o "'"),
              n |-> 0]
        ELSE [exc |-> NoExc, n |-> n]

\* handler.py:40
ResolveTimeout(cfg, env) ==
    ParseInt(Or(cfg.SEARXNG_TIMEOUT, Getenv(env.SEARXNG_TIMEOUT, DefaultTimeout)))

\* the parameter as given, not stripped
UnstrippedParam(entry) == Get(entry, Str("")).v

\* handler.py:42, 45, 46  params.get(name, "").strip()
StripParam(entry) == Strip(Get(entry, Str("")).v)

\* the limit bounded from below only
ClampLimitNoMax(entry) == Max(LimitMin, Get(entry, IntVal(DefaultLimit)).n)

\* handler.py:43-44
ClampLimit(entry) ==
    Max(LimitMin, Min(LimitMax, Get(entry, IntVal(DefaultLimit)).n))

\* the body with categories and time_range always sent
BuildDataAlways(q, categories, time_range) ==
    [f \in {"q", "format", "pageno", "categories", "time_range"} |->
        CASE f = "q" -> q
          [] f = "format" -> "json"
          [] f = "pageno" -> 1
          [] f = "categories" -> categories
          [] f = "time_range" -> time_range]

\* handler.py:82-90
BuildData(q, categories, time_range) ==
    [f \in {"q", "format", "pageno"}
          \cup (IF categories # "" THEN {"categories"} ELSE {})
          \cup (IF time_range # "" THEN {"time_range"} ELSE {}) |->
        CASE f = "q" -> q
          [] f = "format" -> "json"
          [] f = "pageno" -> 1
          [] f = "categories" -> categories
          [] f = "time_range" -> time_range]

\* handler.py:49
EmptyResponse == [results |-> <<>>, count |-> 0]

\* the error response with the whole text of the exception
ErrorResponseWhole(e) == [results |-> <<>>, count |-> 0, error |-> e.msg]

\* handler.py:55
ErrorResponse(e) ==
    [results |-> <<>>, count |-> 0, error |-> Prefix(e.msg, ErrorMax)]

\* value of response and fault while execute has not returned or raised
NoResponse == [pending |-> TRUE]

-----------------------------------------------------------------------------
(* _search_searxng: one iteration of the retry loop, handler.py:93-145 *)

\* handler.py:96
SearchUrl(base) == base \o "/search"

\* the request with the page number following the attempt
RequestPagedAt(att, base, d, t) ==
    [url |-> SearchUrl(base), data |-> [d EXCEPT !["pageno"] = att + 1],
     timeout |-> t]

\* handler.py:95-99  the request of the attempt att
RequestAt(att, base, d, t) ==
    [url |-> SearchUrl(base), data |-> d, timeout |-> t]

\* requests.post sends nothing to a URL without a scheme
HasScheme(url) ==
    Prefix(url, 7) = "http://" \/ Prefix(url, 8) = "https://"

\* handler.py:111  response.raise_for_status(): the HTTPError of requests for
\* a 4xx or 5xx status, whose text holds the status, the reason and the URL
RaiseForStatus(status, reason, url) ==
    IF 400 <= status /\ status < 500
    THEN Exc("HTTPError", TRUE,
             ToString(status) \o " Client Error: " \o reason \o " for url: " \o url)
    ELSE IF 500 <= status /\ status < 600
    THEN Exc("HTTPError", TRUE,
             ToString(status) \o " Server Error: " \o reason \o " for url: " \o url)
    ELSE NoExc

\* handler.py:103, 138
Backoff(att) == _BACKOFF_BASE * (2 ^ att)

\* handler.py:102
IsRetryStatus(status) == status \in RetryStatuses

\* the test on the text of the exception as it is, not lowered
IsRateLimitedCaseSensitive(e) ==
    \E m \in RateMarkers : Contains(e.msg, m)

\* handler.py:136-137
IsRateLimited(e) ==
    LET err_str == Lower(e.msg)
    IN  \E m \in RateMarkers : Contains(err_str, m)

\* handler.py:123-128  the mapping built for a kept item
MapItem(item, url) ==
    [title   |-> Get(item.title, Str("")),
     snippet |-> Get(item.content, Str("")),
     url     |-> url,
     engine  |-> Join(Get(item.engines, List(<<"unknown">>)).l)]

\* handler.py:127  ", ".join(None) raises TypeError
JoinFails(item) == Get(item.engines, List(<<"unknown">>)).k = "null"

\* the loop without the test on seen_urls
RECURSIVE CollectNoDedup(_, _, _, _, _)
CollectNoDedup(items, i, results, seen_urls, lim) ==
    IF i > Len(items) THEN [exc |-> NoExc, results |-> results]
    ELSE
      LET item == items[i]
          url  == Get(item.url, Str(""))
      IN  IF Truthy(url)
          THEN IF JoinFails(item)
               THEN [exc |-> Exc("TypeError", FALSE, "can only join an iterable"),
                     results |-> <<>>]
               ELSE LET kept == Append(results, MapItem(item, url.v))
                    IN  IF Len(kept) >= lim
                        THEN [exc |-> NoExc, results |-> kept]
                        ELSE CollectNoDedup(items, i + 1, kept,
                                            seen_urls \cup {url.v}, lim)
          ELSE CollectNoDedup(items, i + 1, results, seen_urls, lim)

\* the loop with the limit applied to the items scanned, not to the items kept
RECURSIVE CollectScanLimit(_, _, _, _, _)
CollectScanLimit(items, i, results, seen_urls, lim) ==
    IF i > Len(items) \/ i > lim THEN [exc |-> NoExc, results |-> results]
    ELSE
      LET item == items[i]
          url  == Get(item.url, Str(""))
      IN  IF Truthy(url) /\ url.v \notin seen_urls
          THEN IF JoinFails(item)
               THEN [exc |-> Exc("TypeError", FALSE, "can only join an iterable"),
                     results |-> <<>>]
               ELSE CollectScanLimit(items, i + 1,
                                     Append(results, MapItem(item, url.v)),
                                     seen_urls \cup {url.v}, lim)
          ELSE CollectScanLimit(items, i + 1, results, seen_urls, lim)

\* handler.py:117-132  the loop over search_results, from item i on, with
\* the results and seen_urls accumulated so far
RECURSIVE Collect(_, _, _, _, _)
Collect(items, i, results, seen_urls, lim) ==
    IF i > Len(items) THEN [exc |-> NoExc, results |-> results]
    ELSE
      LET item == items[i]
          url  == Get(item.url, Str(""))
      IN  IF Truthy(url) /\ url.v \notin seen_urls
          THEN IF JoinFails(item)
               THEN [exc |-> Exc("TypeError", FALSE, "can only join an iterable"),
                     results |-> <<>>]
               ELSE LET kept == Append(results, MapItem(item, url.v))
                    IN  IF Len(kept) >= lim
                        THEN [exc |-> NoExc, results |-> kept]
                        ELSE Collect(items, i + 1, kept,
                                     seen_urls \cup {url.v}, lim)
          ELSE Collect(items, i + 1, results, seen_urls, lim)

\* handler.py:113-132  response.json(), the results entry and the loop
ParseAndCollect(body, lim) ==
    IF body.shape = "not_json" THEN [exc |-> body.err, results |-> <<>>]
    ELSE IF body.shape = "not_object"
    THEN [exc |-> Exc("AttributeError", FALSE,
                      "'list' object has no attribute 'get'"),
          results |-> <<>>]
    ELSE IF body.results.k = "null"
    THEN [exc |-> Exc("TypeError", FALSE, "'NoneType' object is not iterable"),
          results |-> <<>>]
    ELSE Collect(Get(body.results, List(<<>>)).l, 1, <<>>, {}, lim)

\* handler.py:95-132  the try block: what it raises (NoExc if nothing),
\* whether it reached the sleep of line 108, and the results it returns
TryBlock(url, lim, o) ==
    IF o.kind = "transport"
    THEN [exc |-> o.exc, retry |-> FALSE, results |-> <<>>]
    ELSE IF IsRetryStatus(o.status)
    THEN [exc |-> NoExc, retry |-> TRUE, results |-> <<>>]
    ELSE LET e == RaiseForStatus(o.status, o.reason, url)
         IN  IF e # NoExc
             THEN [exc |-> e, retry |-> FALSE, results |-> <<>>]
             ELSE LET r == ParseAndCollect(o.body, lim)
                  IN  [exc |-> r.exc, retry |-> FALSE, results |-> r.results]

\* handler.py:134-145  the except clause: only a RequestException is
\* caught; it is recorded, and retried when its text looks like a rate limit
CatchRetries(e) == e.reqexc /\ IsRateLimited(e)

\* handler.py:93-145  one iteration of the loop for attempt att: it ends in
\* a sleep (ctl = "sleep"), in a return (ctl = "return") or in an exception
\* that leaves _search_searxng (ctl = "raise")
Iteration(att, lasterr, url, lim, o) ==
    LET t == TryBlock(url, lim, o)
    IN  IF t.retry
        THEN [ctl |-> "sleep", delay |-> Backoff(att), last_err |-> lasterr,
              exc |-> NoExc, results |-> <<>>]
        ELSE IF t.exc = NoExc
        THEN [ctl |-> "return", delay |-> 0, last_err |-> lasterr,
              exc |-> NoExc, results |-> t.results]
        ELSE IF ~t.exc.reqexc
        THEN [ctl |-> "raise", delay |-> 0, last_err |-> lasterr,
              exc |-> t.exc, results |-> <<>>]
        ELSE IF CatchRetries(t.exc)
        THEN [ctl |-> "sleep", delay |-> Backoff(att), last_err |-> t.exc,
              exc |-> NoExc, results |-> <<>>]
        ELSE [ctl |-> "raise", delay |-> 0, last_err |-> t.exc,
              exc |-> t.exc, results |-> <<>>]

\* raise last_err, without the fallback for a last_err of None
ExhaustedNoFallback(lasterr) == lasterr

\* handler.py:149  raise last_err or RequestException("Search retries exhausted")
Exhausted(lasterr) ==
    IF lasterr # NoExc THEN lasterr
    ELSE Exc("RequestException", TRUE, "Search retries exhausted")

\* the loop with one iteration too many
InRangeInclusive(att) == att <= _MAX_RETRIES

\* handler.py:93  the loop goes on while attempt is in range(_MAX_RETRIES)
InRange(att) == att < _MAX_RETRIES

-----------------------------------------------------------------------------
(* execute: formatting of the results, handler.py:57-72 *)

\* the truncation applied from 200 characters on
TruncateFrom200(snippet) ==
    IF Len(snippet) >= SnippetMax THEN Prefix(snippet, SnippetKeep) \o "..."
    ELSE snippet

\* handler.py:59-61
Truncate(snippet) ==
    IF Len(snippet) > SnippetMax THEN Prefix(snippet, SnippetKeep) \o "..."
    ELSE snippet

\* handler.py:60  len(None) raises TypeError, outside the try of execute
LenFails(r) == r.snippet.k = "null"

\* handler.py:62-67
FormatOne(r) ==
    [title   |-> r.title,
     snippet |-> Truncate(r.snippet.v),
     url     |-> r.url,
     engine  |-> r.engine]

\* the response with the results that have an empty title left out of the
\* list but not out of the count
FormatDropUntitled(results) ==
    IF \E j \in 1..Len(results) : LenFails(results[j])
    THEN [exc |-> Exc("TypeError", FALSE,
                      "object of type 'NoneType' has no len()"),
          response |-> NoResponse]
    ELSE [exc |-> NoExc,
          response |-> [results |-> SelectSeq([j \in 1..Len(results) |->
                                                  FormatOne(results[j])],
                                              LAMBDA f : f.title # Str("")),
                        count   |-> Len(results)]]

\* handler.py:57-72  the response, or the exception that leaves execute
Format(results) ==
    IF \E j \in 1..Len(results) : LenFails(results[j])
    THEN [exc |-> Exc("TypeError", FALSE,
                      "object of type 'NoneType' has no len()"),
          response |-> NoResponse]
    ELSE [exc |-> NoExc,
          response |-> [results |-> [j \in 1..Len(results) |-> FormatOne(results[j])],
                        count   |-> Len(results)]]

-----------------------------------------------------------------------------
(* Inputs: what execute is called with and what the backend answers *)

Param(q, l, c, t) == [query |-> q, limit |-> l, categories |-> c, time_range |-> t]
Config(u, t) == [SEARXNG_URL |-> u, SEARXNG_TIMEOUT |-> t]

Queries == {Missing, Str(""), Str("  "), Str(" \t\n"), Str(" cats ")}
Limits == {MissingInt, IntVal(-3), IntVal(0), IntVal(1), IntVal(2), IntVal(50)}
Params == {Param(q, l, Missing, Missing) : q \in Queries, l \in Limits}

\* a base URL whose text happens to hold the letters "rate"
CorporateUrl == "http://corporate:8080"
Configs == {Config(u, Missing) : u \in {Missing, Str(CorporateUrl)}}
Environs == {Config(Missing, Missing)}

\* an item of the backend's result list
Item(url, title, content, engines) ==
    [url |-> url, title |-> title, content |-> content, engines |-> engines]

LongText == Rep("x", SnippetMax - 9) \o "0123456789"

ItemA  == Item(Str("http://a"), Str("A"), Str("alpha"), List(<<"google", "bing">>))
ItemA2 == Item(Str("http://a"), Missing, Str(LongText), MissingList)
ItemB  == Item(Str("http://b"), Null, Null, List(<<"ddg">>))
ItemG  == Item(Str("http://g"), Str("G"), Missing, NullList)
ItemN  == Item(Missing, Str("N"), Str("no url"), List(<<"google">>))
ItemE  == Item(Str(""), Str("E"), Str("empty url"), List(<<"google">>))
Items  == {ItemA, ItemA2, ItemB, ItemG, ItemN, ItemE}

\* a list of LongLen items, the second a repeat of the first URL and the
\* others pairwise distinct
LongItems ==
    [j \in 1..LongLen |->
        IF j = 2 THEN ItemA2
        ELSE IF j = 1 THEN ItemA
        ELSE Item(Str("http://r" \o ToString(j)), Str("R"), Str("r"), List(<<"bing">>))]

\* a list with items without URL, repeated URLs and three distinct URLs,
\* and the same list followed by an item whose engines entry is null
ItemC == Item(Str("http://c"), Str("C"), Str("gamma"), List(<<"ddg">>))
ItemD == Item(Str("http://d"), Str("D"), Str(Rep("z", SnippetMax)), MissingList)
MixedItems == <<ItemN, ItemA, ItemE, ItemC, ItemA2, ItemC, ItemD>>
MixedItemsG == Append(MixedItems, ItemG)

ItemLists ==
    UNION {[1..n -> Items] : n \in 0..MaxItems}
    \cup {LongItems, MixedItems, MixedItemsG}

\* a response body
Body(shape, err, results) == [shape |-> shape, err |-> err, results |-> results]
NoBody == Body("not_json", Exc("JSONDecodeError", TRUE,
                                "Expecting value: line 1 column 1 (char 0)"),
               MissingList)

\* what response.json() raises on a body that is not JSON: a ValueError,
\* that newer versions of requests also derive from RequestException; its
\* text names the position of the error
JsonErrors ==
    {Exc("JSONDecodeError", TRUE, "Expecting value: line 1 column 1 (char 0)"),
     Exc("JSONDecodeError", FALSE, "Expecting value: line 1 column 1 (char 0)"),
     Exc("JSONDecodeError", TRUE, "Extra data: line 1 column 430 (char 429)")}

Bodies ==
    {Body("not_json", e, MissingList) : e \in JsonErrors}
    \cup {Body("not_object", NoExc, MissingList)}
    \cup {Body("object", NoExc, MissingList), Body("object", NoExc, NullList)}
    \cup {Body("object", NoExc, List(l)) : l \in ItemLists}

\* the outcome of one requests.post: a response or a transport failure
Resp(status, reason, body) ==
    [kind |-> "response", status |-> status, reason |-> reason, body |-> body,
     exc |-> NoExc]
Transport(e) ==
    [kind |-> "transport", status |-> 0, reason |-> "", body |-> NoBody,
     exc |-> e]

TransportErrors ==
    {Exc("ConnectionError", TRUE, "Connection refused"),
     Exc("Timeout", TRUE, ""),
     Exc("ConnectionError", TRUE, Rep("y", ErrorMax + 1)),
     Exc("ConnectionError", TRUE, "Rate limit exceeded"),
     Exc("ConnectionError", TRUE, "HTTP 429"),
     Exc("ConnectionError", TRUE, "Too Many Requests")}

\* handler.py:95-99  what requests.post can end with: an outcome of the
\* backend, or MissingSchema when the URL has no scheme
Answers(url, os) ==
    IF HasScheme(url) THEN os
    ELSE {Transport(Exc("MissingSchema", TRUE,
                        "Invalid URL '" \o url \o "': No scheme supplied. "
                        \o "Perhaps you meant https://" \o url \o "?"))}

Outcomes ==
    {Resp(429, "Too Many Requests", NoBody), Resp(502, "Bad Gateway", NoBody),
     Resp(503, "Service Unavailable", NoBody), Resp(504, "Gateway Timeout", NoBody),
     Resp(404, "Not Found", NoBody), Resp(500, "Internal Server Error", NoBody)}
    \cup {Resp(200, "OK", b) : b \in Bodies}
    \cup {Transport(e) : e \in TransportErrors}

-----------------------------------------------------------------------------
(* State machine *)

Init ==
    /\ pc = [i \in Invocations |-> "idle"]
    /\ params = [i \in Invocations |-> Param(Missing, MissingInt, Missing, Missing)]
    /\ config = [i \in Invocations |-> Config(Missing, Missing)]
    /\ environ = [i \in Invocations |-> Config(Missing, Missing)]
    /\ searxng_url = [i \in Invocations |-> ""]
    /\ timeout = [i \in Invocations |-> 0]
    /\ query = [i \in Invocations |-> ""]
    /\ limit = [i \in Invocations |-> 0]
    /\ attempt = [i \in Invocations |-> 0]
    /\ last_err = [i \in Invocations |-> NoExc]
    /\ data = [i \in Invocations |-> BuildData("", "", "")]
    /\ delay = [i \in Invocations |-> 0]
    /\ posts = [i \in Invocations |-> <<>>]
    /\ requests = [i \in Invocations |-> <<>>]
    /\ sleeps = [i \in Invocations |-> <<>>]
    /\ response = [i \in Invocations |-> NoResponse]
    /\ fault = [i \in Invocations |-> NoExc]

\* execute returns r
Return(i, r) ==
    /\ pc' = [pc EXCEPT ![i] = "done"]
    /\ response' = [response EXCEPT ![i] = r]
    /\ fault' = fault

\* the exception e leaves execute
Raise(i, e) ==
    /\ pc' = [pc EXCEPT ![i] = "raised"]
    /\ response' = response
    /\ fault' = [fault EXCEPT ![i] = e]

\* handler.py:51-72  _search_searxng has returned results or raised e
Finish(i, e, results) ==
    IF e # NoExc THEN Return(i, ErrorResponse(e))
    ELSE LET f == Format(results)
         IN  IF f.exc # NoExc THEN Raise(i, f.exc) ELSE Return(i, f.response)

\* handler.py:37-52, 82-93  execute is called: it either returns or raises
\* before any request, or enters the retry loop
Execute(i, ps, cs, es) ==
    /\ pc[i] = "idle"
    /\ \E p \in ps, c \in cs, e \in es :
        LET t == ResolveTimeout(c, e)
            q == StripParam(p.query)
        IN  /\ params' = [params EXCEPT ![i] = p]
            /\ config' = [config EXCEPT ![i] = c]
            /\ environ' = [environ EXCEPT ![i] = e]
            /\ IF t.exc # NoExc
               THEN /\ Raise(i, t.exc)
                    /\ UNCHANGED <<searxng_url, timeout, query, limit, data>>
               ELSE /\ searxng_url' = [searxng_url EXCEPT ![i] = ResolveUrl(c, e)]
                    /\ timeout' = [timeout EXCEPT ![i] = t.n]
                    /\ query' = [query EXCEPT ![i] = q]
                    /\ limit' = [limit EXCEPT ![i] = ClampLimit(p.limit)]
                    /\ IF q = ""
                       THEN /\ Return(i, EmptyResponse)
                            /\ data' = data
                       ELSE /\ pc' = [pc EXCEPT ![i] = "post"]
                            /\ data' = [data EXCEPT ![i] =
                                   BuildData(q, StripParam(p.categories),
                                             StripParam(p.time_range))]
                            /\ UNCHANGED <<response, fault>>
    /\ UNCHANGED <<attempt, last_err, delay, posts, requests, sleeps>>

\* handler.py:95-145  one requests.post and what the loop does with its
\* outcome: start the backoff sleep, return, or raise
Post(i, os) ==
    /\ pc[i] = "post"
    /\ \E o \in Answers(SearchUrl(searxng_url[i]), os) :
        LET url == SearchUrl(searxng_url[i])
            it  == Iteration(attempt[i], last_err[i], url, limit[i], o)
        IN  /\ posts' = [posts EXCEPT ![i] = Append(@, o)]
            /\ requests' = [requests EXCEPT ![i] =
                   Append(@, RequestAt(attempt[i], searxng_url[i], data[i],
                                       timeout[i]))]
            /\ last_err' = [last_err EXCEPT ![i] = it.last_err]
            /\ IF it.ctl = "sleep"
               THEN /\ pc' = [pc EXCEPT ![i] = "sleep"]
                    /\ delay' = [delay EXCEPT ![i] = it.delay]
                    /\ sleeps' = [sleeps EXCEPT ![i] = Append(@, it.delay)]
                    /\ UNCHANGED <<response, fault>>
               ELSE /\ Finish(i, it.exc, it.results)
                    /\ UNCHANGED <<delay, sleeps>>
    /\ UNCHANGED <<params, config, environ, searxng_url, timeout, query, limit,
                   attempt, data>>

\* the loop with its attempt counter kept in a module global, that every
\* invocation reads and writes
WakeSharedAttempt(i) ==
    /\ pc[i] = "sleep"
    /\ IF InRange(attempt[i] + 1)
       THEN /\ attempt' = [j \in Invocations |-> attempt[i] + 1]
            /\ pc' = [pc EXCEPT ![i] = "post"]
            /\ UNCHANGED <<response, fault>>
       ELSE /\ attempt' = attempt
            /\ Finish(i, Exhausted(last_err[i]), <<>>)
    /\ UNCHANGED <<params, config, environ, searxng_url, timeout, query, limit,
                   last_err, data, delay, posts, requests, sleeps>>

\* handler.py:108-109, 143-144, 93, 147-149, 53-55  the sleep ends and the
\* loop continues: the next attempt, or the exhaustion error, which execute
\* turns into the error response
Wake(i) ==
    /\ pc[i] = "sleep"
    /\ IF InRange(attempt[i] + 1)
       THEN /\ attempt' = [attempt EXCEPT ![i] = @ + 1]
            /\ pc' = [pc EXCEPT ![i] = "post"]
            /\ UNCHANGED <<response, fault>>
       ELSE /\ attempt' = attempt
            /\ Finish(i, Exhausted(last_err[i]), <<>>)
    /\ UNCHANGED <<params, config, environ, searxng_url, timeout, query, limit,
                   last_err, data, delay, posts, requests, sleeps>>

Step(i) ==
    \/ Execute(i, Params, Configs, Environs)
    \/ Post(i, Outcomes)
    \/ Wake(i)

\* one invocation of execute, alone
Next == Step(1)

Spec == Init /\ [][Next]_vars

-----------------------------------------------------------------------------
(* One invocation over every combination of configuration, environment,    *)
(* categories and time range, against a few backend outcomes               *)

Presences(s) == {Missing, Str(""), Str(s)}
AllConfigs ==
    {Config(u, t) : u \in Presences("http://cfg:8080"), t \in Presences("15")}
AllEnvirons ==
    {Config(u, t) : u \in Presences("http://env:8080"), t \in Presences("30")}
FilterParams ==
    {Param(Str(" cats "), MissingInt, c, t) :
        c \in {Missing, Str(""), Str("  "), Str(" news ")},
        t \in {Missing, Str(" "), Str("day")}}
FewOutcomes ==
    {Resp(503, "Service Unavailable", NoBody),
     Transport(Exc("ConnectionError", TRUE, "Rate limit exceeded")),
     Resp(404, "Not Found", NoBody),
     Resp(200, "OK", Body("object", NoExc, List(<<ItemA>>)))}

NextInputs ==
    \/ Execute(1, FilterParams, AllConfigs, AllEnvirons)
    \/ Post(1, FewOutcomes)
    \/ Wake(1)

SpecInputs == Init /\ [][NextInputs]_vars

-----------------------------------------------------------------------------
(* Vocabulary of the properties, stated on the histories and not on the    *)
(* operators of the model                                                  *)

Returned(i) == pc[i] = "done"
Escaped(i) == pc[i] = "raised"
Ended(i) == Returned(i) \/ Escaped(i)
HasError(r) == "error" \in DOMAIN r

\* the query is empty or made of whitespace only (an absent query is empty)
BlankQuery(p) ==
    p.query.k = "missing"
    \/ \A j \in 1..Len(p.query.v) :
          SubSeq(p.query.v, j, j) \in {" ", "\t", "\n", "\r"}

\* clamp(limit, 1, 20), the default limit being 5
RefClamp(p) ==
    LET l == IF p.limit.k = "missing" THEN 5 ELSE p.limit.n
    IN  IF l < 1 THEN 1 ELSE IF l > 20 THEN 20 ELSE l

\* a retryable HTTP status
RetryableStatus(o) ==
    o.kind = "response" /\ o.status \in {429, 502, 503, 504}

\* a transport failure whose message indicates rate limiting
RateLimitTransport(o) ==
    /\ o.kind = "transport"
    /\ \E m \in {"429", "rate", "too many"} : Contains(Lower(o.exc.msg), m)

\* a retryable outcome
Retryable(o) == RetryableStatus(o) \/ RateLimitTransport(o)

\* an HTTP error status that is not retryable
ErrorStatus(o) ==
    o.kind = "response" /\ o.status >= 400 /\ ~RetryableStatus(o)

\* a success status
SuccessStatus(o) ==
    o.kind = "response" /\ o.status >= 200 /\ o.status < 300

\* a success status with a body that is not a JSON object, or whose results
\* entry is null
MalformedBody(o) ==
    SuccessStatus(o) /\ (o.body.shape # "object" \/ o.body.results.k = "null")

\* a success status with a JSON object whose results entry is a list or absent
WellFormed(o) == SuccessStatus(o) /\ ~MalformedBody(o)

\* the result list of a well-formed body
ItemsOf(o) == IF o.body.results.k = "list" THEN o.body.results.l ELSE <<>>

UrlOf(item) == IF item.url.k = "str" THEN item.url.v ELSE ""

\* the positions of the items that have a URL no earlier item has
FirstSeen(items) ==
    {j \in 1..Len(items) :
        /\ UrlOf(items[j]) # ""
        /\ \A h \in 1..(j - 1) : UrlOf(items[h]) # UrlOf(items[j])}

\* the first n of them
KeptPositions(items, n) ==
    LET first == FirstSeen(items)
    IN  {j \in first : Cardinality({h \in first : h <= j}) <= n}

\* the attempt was successful: its body is well-formed and every item kept
\* under the clamped limit has its engines as a list, or has none
Successful(o, p) ==
    /\ WellFormed(o)
    /\ \A j \in KeptPositions(ItemsOf(o), RefClamp(p)) :
          ItemsOf(o)[j].engines.k # "null"

LastPost(i) == posts[i][Len(posts[i])]

-----------------------------------------------------------------------------
(* Properties *)

\* C1: execute never raises to its caller: whatever the backend answers,
\* malformed bodies and items with missing or null fields included, execute
\* returns a mapping that holds results and count.
C1_NeverRaises ==
    \A i \in Invocations :
        /\ ~Escaped(i)
        /\ Returned(i) => {"results", "count"} \subseteq DOMAIN response[i]

\* C2: in every invocation of execute the number of HTTP POST attempts is
\* at most 3.
C2_AtMostThreeAttempts ==
    \A i \in Invocations : Len(posts[i]) <= 3 /\ Len(requests[i]) = Len(posts[i])

\* an invocation made three attempts, all of them retryable, and returned
C2_ThreeAttemptsMade ==
    /\ Returned(1)
    /\ Len(posts[1]) = 3
    /\ \A k \in 1..3 : Retryable(posts[1][k])

\* C3: a backoff sleep happens only after a retryable outcome on an attempt
\* that has not reached the maximum of 3, that is only when a further
\* attempt follows it; the sleep after 0-indexed attempt k lasts 2*2^k
\* seconds; three HTTP 503 in a row give exactly 3 attempts and exactly the
\* two sleeps 2s and 4s, none after the third attempt.
C3_SleepOnlyBetweenAttempts ==
    \A i \in Invocations :
        /\ \A k \in 1..Len(sleeps[i]) : sleeps[i][k] = 2 * (2 ^ (k - 1))
        /\ pc[i] = "sleep" => Len(posts[i]) < 3
        /\ Ended(i) /\ posts[i] # <<>> => Len(sleeps[i]) = Len(posts[i]) - 1
        /\ ( /\ Ended(i)
             /\ Len(posts[i]) >= 3
             /\ \A k \in 1..3 : posts[i][k].kind = "response" /\ posts[i][k].status = 503 )
           => Len(posts[i]) = 3 /\ sleeps[i] = <<2, 4>>

\* an attempt that ends the invocation without a retry, as the
\* specification classifies it
NonTransient(o) ==
    \/ ErrorStatus(o)
    \/ MalformedBody(o)
    \/ o.kind = "transport" /\ ~RateLimitTransport(o)

\* C4: when an attempt receives a success status after zero, one or two
\* retryable outcomes, the loop ends there: no further attempt, no further
\* sleep, and execute returns the results mapped from that body, without an
\* error field.
C4_SuccessEndsLoop ==
    \A i \in Invocations : \A k \in 1..Len(posts[i]) :
        ( /\ Successful(posts[i][k], params[i])
          /\ \A h \in 1..(k - 1) : Retryable(posts[i][h]) )
        => /\ k = Len(posts[i])
           /\ Len(sleeps[i]) = k - 1
           /\ Returned(i)
           /\ ~HasError(response[i])
           /\ response[i].count =
                 Cardinality(KeptPositions(ItemsOf(posts[i][k]), RefClamp(params[i])))
           /\ Len(response[i].results) = response[i].count

\* C5: a non-transient backend failure surfaces without retry: after an
\* HTTP error status outside {429, 502, 503, 504}, a malformed body or a
\* transport failure that is not a rate limit, no further attempt and no
\* backoff sleep happen, and execute returns the error response.
C5_NonTransientNotRetried ==
    \A i \in Invocations : \A k \in 1..Len(posts[i]) :
        NonTransient(posts[i][k])
        => /\ k = Len(posts[i])
           /\ Len(sleeps[i]) = k - 1
           /\ Returned(i)
           /\ HasError(response[i])

\* C6: when all 3 attempts of an invocation end with a retryable outcome,
\* execute returns a failure: no results, count 0 and a non-empty error.
C6_ExhaustionFails ==
    \A i \in Invocations :
        ( /\ Len(posts[i]) = 3
          /\ \A k \in 1..3 : Retryable(posts[i][k])
          /\ pc[i] # "sleep" )
        => /\ Returned(i)
           /\ HasError(response[i])
           /\ response[i].results = <<>>
           /\ response[i].count = 0
           /\ response[i].error # ""

\* three retryable outcomes of both kinds, the last an HTTP status
C6_MixedExhaustion ==
    /\ Returned(1)
    /\ Len(posts[1]) = 3
    /\ RetryableStatus(posts[1][1])
    /\ RateLimitTransport(posts[1][2])
    /\ RetryableStatus(posts[1][3])

\* C7: an empty or whitespace-only query gives exactly {results: [],
\* count: 0}, with no HTTP attempt and no sleep.
C7_BlankQueryShortCircuits ==
    \A i \in Invocations :
        pc[i] # "idle" /\ BlankQuery(params[i])
        => /\ Returned(i)
           /\ response[i] = [results |-> <<>>, count |-> 0]
           /\ posts[i] = <<>>
           /\ requests[i] = <<>>
           /\ sleeps[i] = <<>>

\* execute returned for a query of whitespace
C7_WhitespaceQueryReturned ==
    /\ Returned(1)
    /\ params[1].query = Str(" \t\n")
    /\ posts[1] = <<>>

\* C8: the number of results is at most clamp(limit, 1, 20), for limits
\* below 1 and above 20 too.
C8_AtMostClampedLimit ==
    \A i \in Invocations :
        Returned(i)
        => /\ Len(response[i].results) <= RefClamp(params[i])
           /\ response[i].count <= RefClamp(params[i])

\* limit = 50 and a backend list with more than 20 distinct URLs: 20 results
C8_FiftyCutToTwenty ==
    /\ Returned(1)
    /\ params[1].limit = IntVal(50)
    /\ posts[1] # <<>>
    /\ Cardinality(FirstSeen(ItemsOf(LastPost(1)))) > 20
    /\ Len(response[1].results) = 20

\* C9: the URLs of the results are pairwise distinct, and the result of a
\* URL comes from the first backend item that has it.
C9_DistinctUrls ==
    \A i \in Invocations :
        Returned(i)
        => LET rs == response[i].results
           IN  /\ \A a, b \in 1..Len(rs) : a # b => rs[a].url # rs[b].url
               /\ \A a \in 1..Len(rs) :
                     \E j \in FirstSeen(ItemsOf(LastPost(i))) :
                        /\ UrlOf(ItemsOf(LastPost(i))[j]) = rs[a].url
                        /\ rs[a].title =
                             (IF ItemsOf(LastPost(i))[j].title.k = "missing"
                              THEN Str("") ELSE ItemsOf(LastPost(i))[j].title)

\* two backend items with the same URL: one result, from the first
C9_DuplicateDropped ==
    /\ Returned(1)
    /\ posts[1] # <<>>
    /\ ItemsOf(LastPost(1)) = <<ItemA, ItemA2>>
    /\ response[1].count = 1
    /\ response[1].results[1].title = Str("A")

\* C10: a response carries error exactly when the search failed; a response
\* with error has no results, count 0 and at most 200 characters of error;
\* a successful attempt and the empty-query return carry no error.
C10_ErrorIffFailed ==
    \A i \in Invocations :
        Returned(i)
        => /\ HasError(response[i])
                => /\ response[i].results = <<>>
                   /\ response[i].count = 0
                   /\ Len(response[i].error) <= 200
           /\ HasError(response[i])
                <=> ~(posts[i] = <<>> \/ Successful(LastPost(i), params[i]))

\* a failure whose text was longer than 200 characters
C10_LongErrorCut ==
    /\ Returned(1)
    /\ HasError(response[1])
    /\ Len(response[1].error) = 200
    /\ Len(LastPost(1).exc.msg) > 200

\* C11: in every response of execute, a success, the empty-query return or
\* a failure, count is the length of results.
C11_CountIsLength ==
    \A i \in Invocations :
        Returned(i) => response[i].count = Len(response[i].results)

\* a success with three results
C11_ThreeResultsCounted ==
    /\ Returned(1)
    /\ ~HasError(response[1])
    /\ Len(response[1].results) = 3
    /\ response[1].count = 3

-----------------------------------------------------------------------------
(* Two concurrent invocations: their steps interleave in any order *)

ConcurrentParams ==
    {Param(Str(" cats "), IntVal(1), Missing, Missing),
     Param(Str("dogs"), MissingInt, Str("news"), Missing)}
ConcurrentOutcomes ==
    {Resp(503, "Service Unavailable", NoBody),
     Resp(429, "Too Many Requests", NoBody),
     Transport(Exc("ConnectionError", TRUE, "Rate limit exceeded")),
     Transport(Exc("ConnectionError", TRUE, "Connection refused")),
     Resp(404, "Not Found", NoBody),
     Resp(200, "OK", Body("object", NoExc, List(<<ItemA, ItemC>>)))}

NextConcurrent ==
    \E i \in {1, 2} :
        \/ Execute(i, ConcurrentParams, {Config(Missing, Missing)}, Environs)
        \/ Post(i, ConcurrentOutcomes)
        \/ Wake(i)

SpecConcurrent == Init /\ [][NextConcurrent]_vars

\* what an invocation that runs alone ends with
Ending(e, results, slept, n) ==
    IF e # NoExc
    THEN [pc |-> "done", response |-> ErrorResponse(e), fault |-> NoExc,
          sleeps |-> slept, attempts |-> n]
    ELSE LET f == Format(results)
         IN  IF f.exc # NoExc
             THEN [pc |-> "raised", response |-> NoResponse, fault |-> f.exc,
                   sleeps |-> slept, attempts |-> n]
             ELSE [pc |-> "done", response |-> f.response, fault |-> NoExc,
                   sleeps |-> slept, attempts |-> n]

\* the retry loop run alone from attempt att on the outcomes outs[k], ...
RECURSIVE RunLoop(_, _, _, _, _, _, _)
RunLoop(att, lasterr, base, lim, outs, k, slept) ==
    LET it == Iteration(att, lasterr, SearchUrl(base), lim, outs[k])
    IN  IF it.ctl # "sleep"
        THEN Ending(it.exc, it.results, slept, k)
        ELSE IF InRange(att + 1) /\ k < Len(outs)
        THEN RunLoop(att + 1, it.last_err, base, lim, outs, k + 1,
                     Append(slept, it.delay))
        ELSE Ending(Exhausted(it.last_err), <<>>, Append(slept, it.delay), k)

\* execute run alone with the parameters p, the configuration c, the
\* environment e and the backend outcomes outs
RunAlone(p, c, e, outs) ==
    IF StripParam(p.query) = "" THEN Ending(NoExc, <<>>, <<>>, 0)
    ELSE RunLoop(0, NoExc, ResolveUrl(c, e), ClampLimit(p.limit), outs, 1, <<>>)

\* the first of the config value and the environment value that is a
\* non-empty string, or the default
FirstNonEmpty(c, e, d) ==
    IF c.k = "str" /\ c.v # "" THEN c.v
    ELSE IF e.k = "str" /\ e.v # "" THEN e.v
    ELSE d

\* the number a timeout text of the inputs stands for
Seconds(s) == CASE s = "15" -> 15 [] s = "30" -> 30 [] s = "10" -> 10

\* C12: SEARXNG_URL and SEARXNG_TIMEOUT are the first non-empty of the
\* config value, the environment variable and the default
\* (http://localhost:8080, 10), for every combination of absent, empty and
\* set.
C12_FirstNonEmptyWins ==
    \A i \in Invocations :
        pc[i] # "idle"
        => /\ searxng_url[i] =
                FirstNonEmpty(config[i].SEARXNG_URL, environ[i].SEARXNG_URL,
                              "http://localhost:8080")
           /\ timeout[i] =
                Seconds(FirstNonEmpty(config[i].SEARXNG_TIMEOUT,
                                      environ[i].SEARXNG_TIMEOUT, "10"))

\* the content of an item as a string, "" when it is absent
ContentOf(item) == IF item.content.k = "str" THEN item.content.v ELSE ""

\* C13: every snippet has at most 200 characters: a content of at most 200
\* characters is returned unchanged, a longer one as its first 197
\* characters followed by "...".
C13_SnippetTruncated ==
    \A i \in Invocations :
        Returned(i)
        => \A a \in 1..Len(response[i].results) :
             LET r == response[i].results[a]
             IN  /\ Len(r.snippet) <= 200
                 /\ \E j \in FirstSeen(ItemsOf(LastPost(i))) :
                       LET c == ContentOf(ItemsOf(LastPost(i))[j])
                       IN  /\ UrlOf(ItemsOf(LastPost(i))[j]) = r.url
                           /\ r.snippet = IF Len(c) <= 200 THEN c
                                           ELSE SubSeq(c, 1, 197) \o "..."

\* a content of 201 characters returned as 197 characters and the marker
C13_LongSnippetCut ==
    /\ Returned(1)
    /\ posts[1] # <<>>
    /\ ItemsOf(LastPost(1)) = <<ItemA2>>
    /\ Len(response[1].results) = 1
    /\ Len(response[1].results[1].snippet) = 200
    /\ SubSeq(response[1].results[1].snippet, 190, 200) = "xx012345..."

\* a parameter that is absent, empty or made of whitespace only
BlankEntry(e) ==
    e.k = "missing"
    \/ \A j \in 1..Len(e.v) : SubSeq(e.v, j, j) \in {" ", "\t", "\n", "\r"}

\* s is the text of the parameter e without the whitespace around it
TrimmedOf(s, e) ==
    /\ s # ""
    /\ SubSeq(s, 1, 1) # " " /\ SubSeq(s, Len(s), Len(s)) # " "
    /\ \E a, b \in 0..Len(e.v) : e.v = Rep(" ", a) \o s \o Rep(" ", b)

\* C14: the body of every request holds q, format = "json" and pageno = 1,
\* and holds categories (time_range) exactly when the trimmed parameter is
\* not empty, then with the trimmed text: never as an empty string.
C14_BodyFields ==
    \A i \in Invocations : \A k \in 1..Len(requests[i]) :
        LET d == requests[i][k].data
        IN  /\ {"q", "format", "pageno"} \subseteq DOMAIN d
            /\ DOMAIN d \subseteq {"q", "format", "pageno", "categories", "time_range"}
            /\ TrimmedOf(d.q, params[i].query)
            /\ d.format = "json"
            /\ d.pageno = 1
            /\ "categories" \in DOMAIN d <=> ~BlankEntry(params[i].categories)
            /\ "categories" \in DOMAIN d => TrimmedOf(d.categories, params[i].categories)
            /\ "time_range" \in DOMAIN d <=> ~BlankEntry(params[i].time_range)
            /\ "time_range" \in DOMAIN d => TrimmedOf(d.time_range, params[i].time_range)

\* a request sent for whitespace categories and a time range: the body
\* holds time_range and no categories
C14_BlankCategoriesOmitted ==
    /\ requests[1] # <<>>
    /\ params[1].categories = Str("  ")
    /\ params[1].time_range = Str("day")
    /\ DOMAIN requests[1][1].data = {"q", "format", "pageno", "time_range"}
    /\ requests[1][1].data.time_range = "day"

\* C15: concurrent invocations are independent: in every interleaving of
\* two invocations, each one ends with the response, the number of attempts
\* and the sleep delays it has when run alone on the same outcomes.
C15_Independent ==
    \A i \in Invocations :
        Ended(i)
        => LET alone == RunAlone(params[i], config[i], environ[i], posts[i])
           IN  /\ pc[i] = alone.pc
               /\ response[i] = alone.response
               /\ fault[i] = alone.fault
               /\ sleeps[i] = alone.sleeps
               /\ Len(posts[i]) = alone.attempts

\* both invocations ended after interleaved retries: while the first was
\* in its second attempt the second made its first, and both slept
C15_BothEndedAfterRetries ==
    /\ Returned(1) /\ Returned(2)
    /\ Len(posts[1]) = 3 /\ Len(posts[2]) = 2
    /\ sleeps[1] = <<2, 4, 8>> /\ sleeps[2] = <<2>>
    /\ params[1] # params[2]

\* C16: when all three attempts are exhausted the error text is decided by
\* the last failure: the text of the transport failure when the last attempt
\* ended in one, "Search retries exhausted" when the last attempt ended in a
\* retryable HTTP status, whatever the earlier attempts ended in.
C16_LastFailureDecides ==
    \A i \in Invocations :
        ( /\ Returned(i)
          /\ Len(posts[i]) = 3
          /\ \A k \in 1..3 : Retryable(posts[i][k]) )
        => /\ HasError(response[i])
           /\ RateLimitTransport(posts[i][3])
              => response[i].error = Prefix(posts[i][3].exc.msg, ErrorMax)
           /\ RetryableStatus(posts[i][3])
              => response[i].error = "Search retries exhausted"

\* rs holds, in backend order, the URL and title of the items kept under n
MatchesReference(rs, items, n) ==
    LET kept == KeptPositions(items, n)
    IN  /\ Len(rs) = Cardinality(kept)
        /\ \A j \in kept :
              LET a == Cardinality({h \in kept : h <= j})
              IN  /\ rs[a].url = UrlOf(items[j])
                  /\ rs[a].title =
                        (IF items[j].title.k = "missing" THEN Str("")
                         ELSE items[j].title)

\* C17: on a successful attempt the results are the reference computation:
\* the backend items in backend order, without those that have no URL or a
\* URL seen earlier, cut to the first clamp(limit, 1, 20); items after the
\* last kept one are not scanned, so a defect in them does not matter.
C17_ResultsAreReference ==
    \A i \in Invocations :
        ( /\ pc[i] # "idle"
          /\ posts[i] # <<>>
          /\ Successful(LastPost(i), params[i]) )
        => LET items == ItemsOf(LastPost(i))
               n     == RefClamp(params[i])
               found == ParseAndCollect(LastPost(i).body, limit[i])
           IN  /\ found.exc = NoExc
               /\ MatchesReference(found.results, items, n)
               /\ Returned(i)
                  => MatchesReference(response[i].results, items, n)

\* limit 2 on a list with items without URL, repeats and three distinct
\* URLs, followed by an item whose engines entry is null: the first two
\* distinct URLs are returned
C17_CutAfterSecondDistinct ==
    /\ Returned(1)
    /\ posts[1] # <<>>
    /\ ItemsOf(LastPost(1)) = MixedItemsG
    /\ params[1].limit = IntVal(2)
    /\ Len(response[1].results) = 2
    /\ response[1].results[1].url = "http://a"
    /\ response[1].results[2].url = "http://c"

\* C18: a retryable outcome of the first or second attempt is retried: the
\* backoff sleep of that attempt is taken, no response is returned before
\* the next attempt, and after the sleep the next attempt is issued.
C18_RetryableIsRetried ==
    \A i \in Invocations : \A k \in {1, 2} :
        (Len(posts[i]) >= k /\ Retryable(posts[i][k]))
        => /\ Len(sleeps[i]) >= k
           /\ sleeps[i][k] = 2 ^ k
           /\ Len(posts[i]) = k
              => /\ ~Ended(i)
                 /\ Len(sleeps[i]) = k
                 /\ pc[i] \in {"sleep", "post"}
                 /\ pc[i] = "sleep" => InRange(attempt[i] + 1)
                 /\ ENABLED Step(i)

\* a transport failure with "Too Many Requests" and then a 503, each
\* followed by its sleep and by a further attempt
C18_TwoRetries ==
    /\ Len(posts[1]) = 3
    /\ posts[1][1] = Transport(Exc("ConnectionError", TRUE, "Too Many Requests"))
    /\ posts[1][2] = Resp(503, "Service Unavailable", NoBody)
    /\ SubSeq(sleeps[1], 1, 2) = <<2, 4>>

\* C19: every invocation returns a response after a bounded number of
\* attempts and sleeps: a started invocation has either returned or has a
\* next step to take, and it never makes more than 3 attempts or 3 sleeps.
C19_AlwaysReturns ==
    \A i \in Invocations :
        pc[i] # "idle"
        => /\ Returned(i) \/ ENABLED Step(i)
           /\ Len(posts[i]) <= _MAX_RETRIES
           /\ Len(sleeps[i]) <= _MAX_RETRIES

\* C20: retrying leaves the request unchanged: every attempt of an
\* invocation is sent to <SEARXNG_URL>/search with the body built before the
\* first attempt and the resolved timeout, and no step of a started
\* invocation changes its parameters, its configuration, the resolved URL
\* and timeout, the query, the limit or the body.
C20_RetryKeepsRequest ==
    [][\A i \in Invocations :
          pc[i] # "idle"
          => /\ <<params[i], config[i], environ[i], searxng_url[i], timeout[i],
                  query[i], limit[i], data[i]>>'
                = <<params[i], config[i], environ[i], searxng_url[i], timeout[i],
                    query[i], limit[i], data[i]>>
             /\ \A k \in 1..Len(requests'[i]) :
                   /\ requests'[i][k].url = searxng_url[i] \o "/search"
                   /\ requests'[i][k].data = data[i]
                   /\ requests'[i][k].timeout = timeout[i]
                   /\ requests'[i][k] = requests'[i][1]]_vars

\* three attempts with a category filter, after a rate-limit transport
\* failure that was recorded: the third request is the first one again
C20_ThirdRequestSame ==
    /\ Len(requests[1]) = 3
    /\ requests[1][3] = requests[1][1]
    /\ requests[1][1].data.q = "cats"
    /\ "categories" \in DOMAIN requests[1][1].data
    /\ requests[1][1].url = "http://cfg:8080/search"
    /\ last_err[1] # NoExc
    /\ Len(sleeps[1]) >= 2

====
